---- MODULE Spec2Model ----
(***************************************************************************)
(* networkd DHCPv4 server provisioning (networkd-dhcp-server.c):           *)
(*   - the configuration handlers that fill the per-category explicit     *)
(*     server lists and the static lease table;                            *)
(*   - dhcp4_server_configure, one action per step of the function, with   *)
(*     the external DHCP server engine's answers drawn nondeterministically.*)
(***************************************************************************)
EXTENDS Integers, Sequences, FiniteSets, TLC

VARIABLES
    dhcp_static_leases,    \* network->dhcp_static_leases (ordered hashmap)
    parsed,                \* outcome of the last config_parse_dhcp_static_leases call
    pc,                    \* position inside dhcp4_server_configure
    passes,                \* number of provisioning passes started
    link,                  \* the addresses and pool range of the link, as the pass read
                           \* them, kept until the pool is configured
    address,               \* local `address` of dhcp4_server_configure
    n,                     \* loop index of the per-category loop (1 is DNS)
    r,                     \* local `r` of dhcp4_server_configure
    acquired_uplink,       \* local `acquired_uplink`
    uplink,                \* local `uplink`
    it,                    \* the entries the current FOREACH loop has still to visit
    iter,                  \* what the last step read and did, if it was a loop iteration
    engine,                \* the sd_dhcp_server object
    last,                  \* the engine operation of the last step, if it made one
    push_failed,           \* a per-category warning was logged in the current pass
    lookups,               \* calls of manager_find_uplink in the current pass
    failed,                \* the step that ended the current pass with an error
    ret                    \* return value of the pass, once it is done

vars == <<dhcp_static_leases, parsed, pc, passes, link, address, n, r,
          acquired_uplink, uplink, it, iter, engine, last, push_failed, lookups, failed,
          ret>>

----------------------------------------------------------------------------
(* Bounds of the model *)

MaxLines == 1          \* configuration lines per server list key
MaxPasses == 2         \* provisioning passes (configuration reloads)

(* errno values used by the code *)
ENOENT == 2
EACCES == 13
ENOMEM == 12
EBUSY == 16
EEXIST == 17
EINVAL == 22

USEC_PER_SEC == 1000000
ETH_ALEN == 6

AF_INET == "AF_INET"
AF_INET6 == "AF_INET6"

(* A pointer is NULL or the one-element sequence of what it points to *)
NULL == <<>>

Ptr(x) == <<x>>

Deref(p) == p[1]

(* sd_dhcp_lease_info, in declaration order: the index of configs[] *)
SD_DHCP_LEASE_DNS_SERVERS == "DNS"
SD_DHCP_LEASE_NTP_SERVERS == "NTP"
SD_DHCP_LEASE_SIP_SERVERS == "SIP"
SD_DHCP_LEASE_POP3_SERVERS == "POP3"
SD_DHCP_LEASE_SMTP_SERVERS == "SMTP"
SD_DHCP_LEASE_LPR_SERVERS == "LPR"

LeaseInfo == <<SD_DHCP_LEASE_DNS_SERVERS, SD_DHCP_LEASE_NTP_SERVERS,
               SD_DHCP_LEASE_SIP_SERVERS, SD_DHCP_LEASE_POP3_SERVERS,
               SD_DHCP_LEASE_SMTP_SERVERS, SD_DHCP_LEASE_LPR_SERVERS>>

Categories == {LeaseInfo[k] : k \in 1..Len(LeaseInfo)}

----------------------------------------------------------------------------
(* Addresses.  An IPv4 address is its four octets, an IPv6 address its     *)
(* eight groups.                                                           *)

In4Null == <<0, 0, 0, 0>>
In6Loop == <<0, 0, 0, 0, 0, 0, 0, 1>>

in4_addr_is_null(a) == a = <<0, 0, 0, 0>>

in4_addr_is_localhost(a) == a[1] = 127

in4_addr_is_non_local(a) == ~in4_addr_is_null(a) /\ ~in4_addr_is_localhost(a)

in_addr_is_null(family, a) ==
    IF family = AF_INET THEN in4_addr_is_null(a)
    ELSE \A k \in 1..Len(a) : a[k] = 0

(* in_addr_ifindex_name_from_string_auto on the words of the model: the    *)
(* family is detected, an interface scope and a server name are dropped.   *)
in_addr_ifindex_name_from_string_auto(word) ==
    CASE word = "8.8.8.8"            -> [r |-> 0, family |-> AF_INET, in |-> <<8, 8, 8, 8>>]
      [] word = "1.1.1.1"            -> [r |-> 0, family |-> AF_INET, in |-> <<1, 1, 1, 1>>]
      [] word = "9.9.9.9#dns.quad9"  -> [r |-> 0, family |-> AF_INET, in |-> <<9, 9, 9, 9>>]
      [] word = "10.0.0.5"           -> [r |-> 0, family |-> AF_INET, in |-> <<10, 0, 0, 5>>]
      [] word = "10.0.0.9"           -> [r |-> 0, family |-> AF_INET, in |-> <<10, 0, 0, 9>>]
      [] word = "0.0.0.0"            -> [r |-> 0, family |-> AF_INET, in |-> <<0, 0, 0, 0>>]
      [] word = "127.0.0.1"          -> [r |-> 0, family |-> AF_INET, in |-> <<127, 0, 0, 1>>]
      [] word = "127.0.0.53"         -> [r |-> 0, family |-> AF_INET, in |-> <<127, 0, 0, 53>>]
      [] word = "::1"                -> [r |-> 0, family |-> AF_INET6, in |-> In6Loop]
      [] word = "fe80::1%eth0"       -> [r |-> 0, family |-> AF_INET6,
                                         in |-> <<65152, 0, 0, 0, 0, 0, 0, 1>>]
      [] OTHER                       -> [r |-> -EINVAL, family |-> AF_INET, in |-> In4Null]

(* in_addr_from_string(AF_INET, word): a plain dotted quad only; 0 on      *)
(* success, a negative errno otherwise                                     *)
in_addr_from_string(family, word) ==
    LET p == in_addr_ifindex_name_from_string_auto(word)
    IN  IF p.r < 0 \/ p.family # family \/ word = "9.9.9.9#dns.quad9"
        THEN [r |-> -EINVAL, in |-> In4Null]
        ELSE [r |-> 0, in |-> p.in]

(* ether_addr_from_string on the words of the model *)
ether_addr_from_string(word) ==
    CASE word = "aa:bb:cc:dd:ee:ff" -> [r |-> 0, octets |-> <<170, 187, 204, 221, 238, 255>>]
      [] word = "00:11:22:33:44:55" -> [r |-> 0, octets |-> <<0, 17, 34, 51, 68, 85>>]
      [] OTHER                      -> [r |-> -EINVAL, octets |-> <<0, 0, 0, 0, 0, 0>>]

(* A configuration value is the sequence of its tokens: runs of separators *)
(* (" ") and words.  extract_first_word skips separators and cuts a word.   *)
RECURSIVE SkipSeparators(_)
SkipSeparators(p) ==
    IF p # <<>> /\ Head(p) = " " THEN SkipSeparators(Tail(p)) ELSE p

extract_first_word(p) ==
    LET q == SkipSeparators(p)
    IN  IF q = <<>> THEN [r |-> 0, word |-> "", p |-> <<>>]
        ELSE [r |-> 1, word |-> Head(q), p |-> Tail(q)]

isempty(rvalue) == rvalue = <<>>

----------------------------------------------------------------------------
(* Ordered hashmap of static leases: a sequence of entries with unique     *)
(* keys, in insertion order.                                               *)

ordered_hashmap_get(h, key) ==
    {k \in 1..Len(h) : h[k].key = key}

ordered_hashmap_replace(h, key, value) ==
    IF ordered_hashmap_get(h, key) # {}
    THEN [k \in 1..Len(h) |-> IF h[k].key = key THEN [key |-> key, value |-> value] ELSE h[k]]
    ELSE Append(h, [key |-> key, value |-> value])

ordered_hashmap_remove(h, key) ==
    SelectSeq(h, LAMBDA e : e.key # key)

ordered_hashmap_free(h) == <<>>

----------------------------------------------------------------------------
(* Configuration handlers *)

(* Values of the DNS= / NTP= / ... keys of the [DHCPServer] section *)
ServerListValues ==
    { <<"0.0.0.0", " ", "8.8.8.8">>,
      <<"bogus", " ", "127.0.0.1">> }

(* config_parse_dhcp_lease_server_list: `allocs` is the number of          *)
(* reallocarray calls that succeed (-1: all of them).                      *)
RECURSIVE config_parse_dhcp_lease_server_list(_, _, _)
config_parse_dhcp_lease_server_list(p, addresses, allocs) ==
    LET w == extract_first_word(p)
        a == in_addr_from_string(AF_INET, w.word)
    IN  IF w.r = 0 THEN [r |-> 0, addresses |-> addresses]
        ELSE IF a.r < 0
             THEN config_parse_dhcp_lease_server_list(w.p, addresses, allocs)
        ELSE IF allocs = 0 THEN [r |-> -ENOMEM, addresses |-> addresses]
        ELSE config_parse_dhcp_lease_server_list(
                 w.p, Append(addresses, a.in), IF allocs < 0 THEN allocs ELSE allocs - 1)

(* config_parse_dhcp_server_dns, _ntp, _sip, _pop3_servers, _smtp_servers, *)
(* _lpr_servers: each line of the key appends to the list of its category. *)
(* The lists a category can hold after at most k lines:                    *)
RECURSIVE ExplicitValues(_)
ExplicitValues(k) ==
    IF k = 0 THEN {<<>>}
    ELSE ExplicitValues(k - 1) \cup
         { config_parse_dhcp_lease_server_list(rvalue, addresses, allocs).addresses :
             rvalue \in ServerListValues, addresses \in ExplicitValues(k - 1),
             allocs \in {-1, 0} }

(* network->dhcp_server_dns, ..._ntp, ...: what a category's list can be *)
ExplicitLists == ExplicitValues(MaxLines)

(* Values of the static lease key *)
StaticLeaseValues ==
    { <<>>,
      <<" ">>,
      <<"aa:bb:cc:dd:ee:ff", " ", "10.0.0.5">>,
      <<"aa:bb:cc:dd:ee:ff", " ", "10.0.0.9">>,
      <<"00:11:22:33:44:55", " ", "10.0.0.5">>,
      <<"bogus", " ", "10.0.0.5">>,
      <<"aa:bb:cc:dd:ee:ff">>,
      <<"aa:bb:cc:dd:ee:ff", " ", "::1">> }

(* The allocation or library call of the handler that fails, if any *)
StaticLeaseFailures ==
    {"none", "word1", "ether_addr", "word2", "client_id", "lease_new", "ensure_allocated",
     "replace"}

NoKey == <<>>

(* The client identifier built at lines 662-667: 0x01, then the MAC octets *)
dhcp_client_id(octets) == <<1>> \o octets

(* static_lease_store putting the entry without looking for its key, and  *)
(* not removing it                                                         *)
static_lease_store_appending(h, key, value) ==
    Append(h, [key |-> key, value |-> value])

(* static_lease_store keeping the entry it has put *)
static_lease_store_keeping(h, key, value) == ordered_hashmap_replace(h, key, value)

(* The table after lines 680-694: the entry is put, then removed again *)
static_lease_store(h, key, value) ==
    ordered_hashmap_remove(ordered_hashmap_replace(h, key, value), key)

(* config_parse_dhcp_static_leases returning an error for a line that is   *)
(* not valid, so that the parser stops at it                               *)
config_parse_dhcp_static_leases_strict(rvalue, h, fail) ==
    LET w1   == extract_first_word(rvalue)
        mac  == ether_addr_from_string(w1.word)
        w2   == extract_first_word(w1.p)
        addr == in_addr_from_string(AF_INET, w2.word)
        c    == dhcp_client_id(mac.octets)
        out(how, table, key, value, res) ==
            [how |-> how, table |-> table, key |-> key, value |-> value, r |-> res]
    IN  IF isempty(rvalue) THEN out("cleared", ordered_hashmap_free(h), NoKey, In4Null, 0)
        ELSE IF fail = "word1" THEN out("oom", h, NoKey, In4Null, -ENOMEM)
        ELSE IF w1.r <= 0 THEN out("ignored", h, NoKey, In4Null, -EINVAL)
        ELSE IF fail = "ether_addr" THEN out("oom", h, NoKey, In4Null, -ENOMEM)
        ELSE IF mac.r < 0 THEN out("ignored", h, NoKey, In4Null, -EINVAL)
        ELSE IF fail = "word2" THEN out("oom", h, NoKey, In4Null, -ENOMEM)
        ELSE IF w2.r <= 0 THEN out("ignored", h, NoKey, In4Null, -EINVAL)
        ELSE IF addr.r < 0 THEN out("ignored", h, NoKey, In4Null, -EINVAL)
        ELSE IF fail = "client_id" THEN out("oom", h, NoKey, In4Null, -ENOMEM)
        ELSE IF fail = "lease_new" THEN out("ignored", h, NoKey, In4Null, 0)
        ELSE IF fail = "ensure_allocated" THEN out("oom", h, NoKey, In4Null, -ENOMEM)
        ELSE IF fail = "replace" THEN out("ignored", h, NoKey, In4Null, 0)
        ELSE out("stored", static_lease_store(h, c, addr.in), c, addr.in, 0)

(* config_parse_dhcp_static_leases without the test for an empty value     *)
config_parse_dhcp_static_leases_without_clear(rvalue, h, fail) ==
    LET w1   == extract_first_word(rvalue)
        mac  == ether_addr_from_string(w1.word)
        w2   == extract_first_word(w1.p)
        addr == in_addr_from_string(AF_INET, w2.word)
        c    == dhcp_client_id(mac.octets)
        out(how, table, key, value, res) ==
            [how |-> how, table |-> table, key |-> key, value |-> value, r |-> res]
    IN  IF fail = "word1" THEN out("oom", h, NoKey, In4Null, -ENOMEM)
        ELSE IF w1.r <= 0 THEN out("ignored", h, NoKey, In4Null, 0)
        ELSE IF fail = "ether_addr" THEN out("oom", h, NoKey, In4Null, -ENOMEM)
        ELSE IF mac.r < 0 THEN out("ignored", h, NoKey, In4Null, 0)
        ELSE IF fail = "word2" THEN out("oom", h, NoKey, In4Null, -ENOMEM)
        ELSE IF w2.r <= 0 THEN out("ignored", h, NoKey, In4Null, 0)
        ELSE IF addr.r < 0 THEN out("ignored", h, NoKey, In4Null, 0)
        ELSE IF fail = "client_id" THEN out("oom", h, NoKey, In4Null, -ENOMEM)
        ELSE IF fail = "lease_new" THEN out("ignored", h, NoKey, In4Null, 0)
        ELSE IF fail = "ensure_allocated" THEN out("oom", h, NoKey, In4Null, -ENOMEM)
        ELSE IF fail = "replace" THEN out("ignored", h, NoKey, In4Null, 0)
        ELSE out("stored", static_lease_store(h, c, addr.in), c, addr.in, 0)

(* config_parse_dhcp_static_leases: the table it leaves, its return value, *)
(* and how far it got.                                                     *)
config_parse_dhcp_static_leases(rvalue, h, fail) ==
    LET w1   == extract_first_word(rvalue)
        mac  == ether_addr_from_string(w1.word)
        w2   == extract_first_word(w1.p)
        addr == in_addr_from_string(AF_INET, w2.word)
        c    == dhcp_client_id(mac.octets)
        out(how, table, key, value, res) ==
            [how |-> how, table |-> table, key |-> key, value |-> value, r |-> res]
    IN  IF isempty(rvalue) THEN out("cleared", ordered_hashmap_free(h), NoKey, In4Null, 0)
        ELSE IF fail = "word1" THEN out("oom", h, NoKey, In4Null, -ENOMEM)
        ELSE IF w1.r <= 0 THEN out("ignored", h, NoKey, In4Null, 0)
        ELSE IF fail = "ether_addr" THEN out("oom", h, NoKey, In4Null, -ENOMEM)
        ELSE IF mac.r < 0 THEN out("ignored", h, NoKey, In4Null, 0)
        ELSE IF fail = "word2" THEN out("oom", h, NoKey, In4Null, -ENOMEM)
        ELSE IF w2.r <= 0 THEN out("ignored", h, NoKey, In4Null, 0)
        ELSE IF addr.r < 0 THEN out("ignored", h, NoKey, In4Null, 0)
        ELSE IF fail = "client_id" THEN out("oom", h, NoKey, In4Null, -ENOMEM)
        ELSE IF fail = "lease_new" THEN out("ignored", h, NoKey, In4Null, 0)
        ELSE IF fail = "ensure_allocated" THEN out("oom", h, NoKey, In4Null, -ENOMEM)
        ELSE IF fail = "replace" THEN out("ignored", h, NoKey, In4Null, 0)
        ELSE out("stored", static_lease_store(h, c, addr.in), c, addr.in, 0)

ConfigParseStaticLeases ==
    /\ pc = "idle"
    /\ \E rvalue \in StaticLeaseValues, fail \in StaticLeaseFailures :
         LET res == config_parse_dhcp_static_leases(rvalue, dhcp_static_leases, fail)
         IN  /\ dhcp_static_leases' = res.table
             /\ parsed' = [rvalue |-> rvalue, fail |-> fail, how |-> res.how,
                           key |-> res.key, value |-> res.value, r |-> res.r]
    /\ UNCHANGED <<pc, passes, link, address, n, r, acquired_uplink,
                   uplink, it, iter, engine, last, push_failed, lookups, failed, ret>>

----------------------------------------------------------------------------
(* Service list resolution.  `failAt` is the number of the GREEDY_REALLOC  *)
(* call that fails (0: none fails); `used` counts the calls made so far.   *)

(* What a resolution function did: its return value, the list it set on    *)
(* the engine if it got as far as calling the engine, and whether one of   *)
(* its allocations failed.                                                 *)
Resolved(res, pushed, list, oom) ==
    [r |-> res, pushed |-> pushed, list |-> list, oom |-> oom]

(* Lines 52-69: the uplink's configured DNS servers *)
RECURSIVE uplink_dns_static(_, _, _, _)
uplink_dns_static(dns, addresses, used, failAt) ==
    IF dns = <<>> THEN [oom |-> FALSE, addresses |-> addresses, used |-> used]
    ELSE IF Head(dns).family # AF_INET
         THEN uplink_dns_static(Tail(dns), addresses, used, failAt)
    ELSE IF in4_addr_is_null(Head(dns).address) \/ in4_addr_is_localhost(Head(dns).address)
         THEN uplink_dns_static(Tail(dns), addresses, used, failAt)
    ELSE IF used + 1 = failAt
         THEN [oom |-> TRUE, addresses |-> addresses, used |-> used + 1]
    ELSE uplink_dns_static(Tail(dns), Append(addresses, Head(dns).address), used + 1, failAt)

(* lease_non_local without the in4_addr_is_non_local test *)
lease_unfiltered(da) == da

(* Lines 81-83 and 169-171: the servers of the lease that are not local *)
lease_non_local(da) == SelectSeq(da, in4_addr_is_non_local)

(* Lines 71-85 and 161-173: the lease's servers, appended after one        *)
(* reallocation for all of them.                                           *)
uplink_lease_append(acc, lease_condition, dhcp_lease, failAt) ==
    IF lease_condition /\ dhcp_lease # NULL /\ Len(Deref(dhcp_lease)) > 0
    THEN IF acc.used + 1 = failAt
         THEN [oom |-> TRUE, addresses |-> acc.addresses, used |-> acc.used + 1]
         ELSE [oom |-> FALSE,
               addresses |-> acc.addresses \o lease_non_local(Deref(dhcp_lease)),
               used |-> acc.used + 1]
    ELSE acc

(* Lines 87-90 and 175-178: nothing to set, or the engine call *)
uplink_set_servers(acc, res) ==
    IF Len(acc.addresses) <= 0 THEN Resolved(0, FALSE, <<>>, FALSE)
    ELSE Resolved(res, TRUE, acc.addresses, FALSE)

(* link_push_uplink_dns_to_dhcp_server taking the lease's servers whatever *)
(* dhcp_use_dns says                                                       *)
link_push_uplink_dns_ignoring_use(dns, dhcp_use_dns, dhcp_lease, failAt, res) ==
    LET own == uplink_dns_static(dns, <<>>, 0, failAt)
        all == uplink_lease_append(own, TRUE, dhcp_lease, failAt)
    IN  IF own.oom THEN Resolved(-ENOMEM, FALSE, <<>>, TRUE)
        ELSE IF all.oom THEN Resolved(-ENOMEM, FALSE, <<>>, TRUE)
        ELSE uplink_set_servers(all, res)

(* link_push_uplink_dns_to_dhcp_server; `dhcp_lease` is NULL or the DNS    *)
(* servers of the lease, `res` the engine's answer.                        *)
link_push_uplink_dns_to_dhcp_server(dns, dhcp_use_dns, dhcp_lease, failAt, res) ==
    LET own == uplink_dns_static(dns, <<>>, 0, failAt)
        all == uplink_lease_append(own, dhcp_use_dns, dhcp_lease, failAt)
    IN  IF own.oom THEN Resolved(-ENOMEM, FALSE, <<>>, TRUE)
        ELSE IF all.oom THEN Resolved(-ENOMEM, FALSE, <<>>, TRUE)
        ELSE uplink_set_servers(all, res)

(* Lines 144-159: the uplink's configured servers, parsed from strings;    *)
(* a server is left out when in_addr_from_string returns 0 or less         *)
RECURSIVE uplink_servers_static(_, _, _, _)
uplink_servers_static(servers, addresses, used, failAt) ==
    IF servers = <<>> THEN [oom |-> FALSE, addresses |-> addresses, used |-> used]
    ELSE LET ia == in_addr_from_string(AF_INET, Head(servers))
         IN  IF ia.r <= 0
             THEN uplink_servers_static(Tail(servers), addresses, used, failAt)
             ELSE IF in4_addr_is_null(ia.in) \/ in4_addr_is_localhost(ia.in)
             THEN uplink_servers_static(Tail(servers), addresses, used, failAt)
             ELSE IF used + 1 = failAt
             THEN [oom |-> TRUE, addresses |-> addresses, used |-> used + 1]
             ELSE uplink_servers_static(Tail(servers), Append(addresses, ia.in),
                                        used + 1, failAt)

(* lease_condition_of with the lease condition true for every category *)
lease_condition_always(what, use) == TRUE

(* Lines 108-141: the lease condition of a category; `use` is the uplink's *)
(* dhcp_use_ntp or dhcp_use_sip.                                           *)
lease_condition_of(what, use) ==
    CASE what = SD_DHCP_LEASE_NTP_SERVERS  -> use
      [] what = SD_DHCP_LEASE_POP3_SERVERS -> TRUE
      [] what = SD_DHCP_LEASE_SMTP_SERVERS -> TRUE
      [] what = SD_DHCP_LEASE_SIP_SERVERS  -> use
      [] what = SD_DHCP_LEASE_LPR_SERVERS  -> TRUE

(* link_push_uplink_to_dhcp_server for a link that has a network.  `src`   *)
(* holds what the function reads from the uplink for this category.        *)
link_push_uplink_to_dhcp_server(what, src, failAt, res) ==
    IF what = SD_DHCP_LEASE_DNS_SERVERS
    THEN link_push_uplink_dns_to_dhcp_server(src.dns, src.use, src.dhcp_lease, failAt, res)
    ELSE LET own == uplink_servers_static(src.servers, <<>>, 0, failAt)
             all == uplink_lease_append(own, lease_condition_of(what, src.use),
                                        src.dhcp_lease, failAt)
         IN  IF own.oom THEN Resolved(-ENOMEM, FALSE, <<>>, TRUE)
             ELSE IF all.oom THEN Resolved(-ENOMEM, FALSE, <<>>, TRUE)
             ELSE uplink_set_servers(all, res)

(* dhcp4_server_parse_dns_server_string_and_warn leaving the loop at the   *)
(* first word that does not parse, instead of going on to the next word    *)
RECURSIVE parse_dns_server_string_break(_, _, _, _)
parse_dns_server_string_break(string, addresses, used, failAt) ==
    LET w == extract_first_word(string)
        a == in_addr_ifindex_name_from_string_auto(w.word)
    IN  IF w.r = 0 THEN [r |-> 0, addresses |-> addresses, used |-> used]
        ELSE IF a.r < 0 THEN [r |-> 0, addresses |-> addresses, used |-> used]
        ELSE IF a.family # AF_INET
             THEN parse_dns_server_string_break(w.p, addresses, used, failAt)
        ELSE IF in4_addr_is_null(a.in) \/ in4_addr_is_localhost(a.in)
             THEN parse_dns_server_string_break(w.p, addresses, used, failAt)
        ELSE IF used + 1 = failAt
             THEN [r |-> -ENOMEM, addresses |-> addresses, used |-> used + 1]
        ELSE parse_dns_server_string_break(w.p, Append(addresses, a.in), used + 1, failAt)

(* dhcp4_server_parse_dns_server_string_and_warn on the rest of a          *)
(* nameserver line.                                                        *)
RECURSIVE dhcp4_server_parse_dns_server_string_and_warn(_, _, _, _)
dhcp4_server_parse_dns_server_string_and_warn(string, addresses, used, failAt) ==
    LET w == extract_first_word(string)
        a == in_addr_ifindex_name_from_string_auto(w.word)
    IN  IF w.r = 0 THEN [r |-> 0, addresses |-> addresses, used |-> used]
        ELSE IF a.r < 0
             THEN dhcp4_server_parse_dns_server_string_and_warn(w.p, addresses, used, failAt)
        ELSE IF a.family # AF_INET
             THEN dhcp4_server_parse_dns_server_string_and_warn(w.p, addresses, used, failAt)
        ELSE IF in4_addr_is_null(a.in) \/ in4_addr_is_localhost(a.in)
             THEN dhcp4_server_parse_dns_server_string_and_warn(w.p, addresses, used, failAt)
        ELSE IF used + 1 = failAt
             THEN [r |-> -ENOMEM, addresses |-> addresses, used |-> used + 1]
        ELSE dhcp4_server_parse_dns_server_string_and_warn(
                 w.p, Append(addresses, a.in), used + 1, failAt)

(* strstrip: leading and trailing separators removed *)
RECURSIVE StripTrailing(_)
StripTrailing(l) ==
    IF l # <<>> /\ l[Len(l)] = " " THEN StripTrailing(SubSeq(l, 1, Len(l) - 1)) ELSE l

strstrip(line) == StripTrailing(SkipSeparators(line))

(* first_word(l, "nameserver"): the rest of the line after the word, or NULL *)
first_word(l, word) ==
    IF l # <<>> /\ Head(l) = word THEN Ptr(SkipSeparators(Tail(l))) ELSE NULL

(* Lines 230-254: the read loop.  `lineno` counts the read_line calls; the *)
(* call number f.read_error fails (0: none).                               *)
RECURSIVE resolve_conf_lines(_, _, _, _, _)
resolve_conf_lines(f, lineno, addresses, used, failAt) ==
    IF lineno = f.read_error THEN [r |-> -EINVAL, addresses |-> addresses, used |-> used]
    ELSE IF lineno > Len(f.lines) THEN [r |-> 0, addresses |-> addresses, used |-> used]
    ELSE LET l == strstrip(f.lines[lineno])
             a == IF l = <<>> \/ Head(l) \in {"#", ";"} THEN NULL ELSE first_word(l, "nameserver")
             q == dhcp4_server_parse_dns_server_string_and_warn(Deref(a), addresses, used,
                                                                failAt)
         IN  IF a = NULL
             THEN resolve_conf_lines(f, lineno + 1, addresses, used, failAt)
             ELSE resolve_conf_lines(f, lineno + 1, q.addresses, q.used, failAt)

(* dhcp4_server_set_dns_from_resolve_conf; `f` is the file as fopen and    *)
(* read_line find it.                                                      *)
dhcp4_server_set_dns_from_resolve_conf(f, failAt, res) ==
    IF f.errno = ENOENT THEN Resolved(0, FALSE, <<>>, FALSE)
    ELSE IF f.errno # 0 THEN Resolved(-f.errno, FALSE, <<>>, FALSE)
    ELSE LET got == resolve_conf_lines(f, 1, <<>>, 0, failAt)
             oom == failAt > 0 /\ got.used >= failAt
         IN  IF got.r < 0 THEN Resolved(got.r, FALSE, <<>>, oom)
             ELSE IF Len(got.addresses) <= 0 THEN Resolved(0, FALSE, <<>>, oom)
             ELSE Resolved(res, TRUE, got.addresses, oom)

----------------------------------------------------------------------------
(* What dhcp4_server_configure reads from outside this file *)

Address(family, in_addr, prefixlen) ==
    [family |-> family, in_addr |-> in_addr, prefixlen |-> prefixlen]

(* link->network->static_addresses *)
StaticAddressValues ==
    { <<>>,
      << Address(AF_INET6, In6Loop, 128), Address(AF_INET, In4Null, 0) >>,
      << Address(AF_INET6, In6Loop, 128), Address(AF_INET, In4Null, 0),
         Address(AF_INET, <<10, 0, 0, 1>>, 24), Address(AF_INET, <<192, 168, 1, 1>>, 16) >> }

(* link->pool_addresses *)
PoolAddressValues ==
    { <<>>,
      << Address(AF_INET6, In6Loop, 128) >>,
      << Address(AF_INET6, In6Loop, 128), Address(AF_INET, <<172, 16, 0, 1>>, 12),
         Address(AF_INET, <<172, 17, 0, 1>>, 12) >> }

(* dhcp_server_pool_offset and dhcp_server_pool_size *)
PoolRangeValues == { [offset |-> 10, size |-> 50] }

(* dhcp_server_max_lease_time_usec, dhcp_server_default_lease_time_usec *)
LeaseTimeValues == {0, 1, USEC_PER_SEC + 1}

(* The answers of the engine to a setter, and to an add of a new entry *)
EngineResults == {0, -EINVAL}

(* manager_find_uplink: no uplink, or a link without a network, or a link  *)
(* with a network and with or without a lease.                             *)
UplinkValues ==
    { NULL,
      Ptr([network |-> FALSE, dhcp_lease |-> FALSE]),
      Ptr([network |-> TRUE, dhcp_lease |-> FALSE]),
      Ptr([network |-> TRUE, dhcp_lease |-> TRUE]) }

(* uplink->network->dns *)
UplinkDnsValues ==
    { <<>>,
      << [family |-> AF_INET6, address |-> In6Loop],
         [family |-> AF_INET, address |-> In4Null],
         [family |-> AF_INET, address |-> <<1, 1, 1, 1>>],
         [family |-> AF_INET, address |-> <<127, 0, 0, 53>>],
         [family |-> AF_INET, address |-> <<9, 9, 9, 9>>] >> }

(* uplink->network->ntp, sip, pop3, smtp, lpr *)
UplinkServerValues ==
    { <<>>,
      << "ntp.example.org", "127.0.0.1", "1.1.1.1", "0.0.0.0", "::1", "10.0.0.5" >> }

(* The servers of a category in the uplink's lease *)
LeaseServerValues ==
    { <<>>,
      << <<8, 8, 8, 8>>, <<0, 0, 0, 0>> >>,
      << <<127, 0, 0, 1>>, <<1, 1, 1, 1>> >> }

FailAtValues == {0, 1, 2}

ResolvConf(errno, lines, read_error) ==
    [errno |-> errno, lines |-> lines, read_error |-> read_error]

NameserverLine == <<"nameserver", " ", "1.1.1.1">>

MixedLines ==
    << <<"#", "nameserver", " ", "8.8.8.8">>,
       <<>>,
       <<" ", "nameserver", " ", "bogus", " ", "127.0.0.53", " ", "1.1.1.1", " ">>,
       <<"search", " ", "example.org">>,
       <<";", " ", "nameserver", " ", "8.8.8.8">>,
       <<"nameserver", " ", "::1", " ", "9.9.9.9#dns.quad9">> >>

(* PRIVATE_UPLINK_RESOLV_CONF as fopen and read_line find it *)
ResolvConfValues ==
    { ResolvConf(ENOENT, <<>>, 0),
      ResolvConf(EACCES, <<>>, 0),
      ResolvConf(0, <<NameserverLine>>, 0),
      ResolvConf(0, <<NameserverLine>>, 2),
      ResolvConf(0, << <<"nameserver", " ", "0.0.0.0">> >>, 0),
      ResolvConf(0, MixedLines, 0) }

NoSrc == [dns |-> <<>>, servers |-> <<>>, use |-> FALSE, dhcp_lease |-> NULL]

NoFile == ResolvConf(0, <<>>, 0)

(* What the uplink holds for a category *)
UplinkSrcValues(what, u) ==
    { [dns |-> d, servers |-> sv, use |-> use, dhcp_lease |-> dl] :
        d   \in IF what = SD_DHCP_LEASE_DNS_SERVERS THEN UplinkDnsValues ELSE {<<>>},
        sv  \in IF what = SD_DHCP_LEASE_DNS_SERVERS THEN {<<>>} ELSE UplinkServerValues,
        use \in IF what \in {SD_DHCP_LEASE_DNS_SERVERS, SD_DHCP_LEASE_NTP_SERVERS,
                             SD_DHCP_LEASE_SIP_SERVERS} THEN BOOLEAN ELSE {FALSE},
        dl  \in IF u.dhcp_lease THEN {Ptr(l) : l \in LeaseServerValues} ELSE {NULL} }

Call(op, what, arg, res) == [op |-> op, what |-> what, arg |-> arg, res |-> res]

NoCall == Call("none", "", <<>>, 0)

NoIter ==
    [what |-> "", condition |-> FALSE, servers |-> <<>>, path |-> "none", src |-> NoSrc,
     file |-> NoFile, oom |-> FALSE, pushed |-> FALSE, list |-> <<>>, r |-> 0,
     warned |-> FALSE]

NoParsed ==
    [rvalue |-> <<>>, fail |-> "none", how |-> "none", key |-> NoKey, value |-> In4Null,
     r |-> 0]

NoLink ==
    [read |-> FALSE, static_addresses |-> <<>>, pool_addresses |-> <<>>,
     pool_offset |-> 0, pool_size |-> 0]

DIV_ROUND_UP(x, y) == (x + y - 1) \div y

----------------------------------------------------------------------------
(* dhcp4_server_configure *)

RECURSIVE first_static_address(_)
first_static_address(addresses) ==
    IF addresses = <<>> THEN NULL
    ELSE IF Head(addresses).family # AF_INET THEN first_static_address(Tail(addresses))
    ELSE IF in_addr_is_null(Head(addresses).family, Head(addresses).in_addr)
         THEN first_static_address(Tail(addresses))
    ELSE Ptr(Head(addresses))

(* first_pool_address without the family test *)
first_pool_address_any_family(addresses) ==
    IF addresses = <<>> THEN NULL ELSE Ptr(Head(addresses))

RECURSIVE first_pool_address(_)
first_pool_address(addresses) ==
    IF addresses = <<>> THEN NULL
    ELSE IF Head(addresses).family # AF_INET THEN first_pool_address(Tail(addresses))
    ELSE Ptr(Head(addresses))

(* link_find_dhcp_server_address looking at the pool addresses first *)
link_find_dhcp_server_address_pool_first(static_addresses, pool_addresses) ==
    IF first_pool_address(pool_addresses) # NULL
    THEN first_pool_address(pool_addresses)
    ELSE first_static_address(static_addresses)

link_find_dhcp_server_address(static_addresses, pool_addresses) ==
    IF first_static_address(static_addresses) # NULL
    THEN first_static_address(static_addresses)
    ELSE first_pool_address(pool_addresses)

(* The function returns: its locals are gone *)
Return(res, step) ==
    /\ pc' = "done"
    /\ ret' = res
    /\ failed' = step
    /\ address' = NULL
    /\ n' = 0
    /\ r' = 0
    /\ acquired_uplink' = FALSE
    /\ uplink' = NULL
    /\ it' = <<>>

(* The function goes on to the step `next` with r set to `res` *)
Goto(next, res) ==
    /\ pc' = next
    /\ r' = res
    /\ UNCHANGED <<address, n, acquired_uplink, uplink, it, ret, failed>>

Config == <<dhcp_static_leases, parsed>>

(* Lines 271-274 *)
FindServerAddress ==
    /\ pc \in {"idle", "done"}
    /\ passes < MaxPasses
    /\ passes' = passes + 1
    /\ last' = NoCall
    /\ iter' = NoIter
    /\ push_failed' = FALSE
    /\ lookups' = 0
    /\ parsed' = NoParsed
    /\ \E sa \in StaticAddressValues, pa \in PoolAddressValues, range \in PoolRangeValues :
         LET a == link_find_dhcp_server_address(sa, pa)
         IN  /\ link' = [read |-> TRUE, static_addresses |-> sa, pool_addresses |-> pa,
                         pool_offset |-> range.offset, pool_size |-> range.size]
             /\ IF a = NULL
                THEN Return(-EBUSY, "address")
                ELSE /\ pc' = "pool"
                     /\ address' = a
                     /\ ret' = 0
                     /\ failed' = ""
                     /\ n' = 0
                     /\ r' = 0
                     /\ acquired_uplink' = FALSE
                     /\ uplink' = NULL
                     /\ it' = <<>>
    /\ UNCHANGED <<dhcp_static_leases, engine>>

(* sd_dhcp_server_configure_pool took the pool *)
pool_of(a, offset, size) ==
    Ptr([address |-> a.in_addr, prefixlen |-> a.prefixlen, offset |-> offset, size |-> size])

(* Lines 276-280 *)
ConfigurePool ==
    /\ pc = "pool"
    /\ \E res \in EngineResults :
         /\ last' = Call("configure_pool", "",
                         pool_of(Deref(address), link.pool_offset, link.pool_size), res)
         /\ IF res < 0
            THEN /\ Return(res, "pool")
                 /\ UNCHANGED engine
            ELSE /\ engine' = [engine EXCEPT !.pool =
                                  pool_of(Deref(address), link.pool_offset, link.pool_size)]
                 /\ Goto("max_lease_time", res)
    /\ UNCHANGED <<Config, passes, link, iter, push_failed, lookups>>

(* Lines 288-293 *)
SetMaxLeaseTime ==
    /\ pc = "max_lease_time"
    /\ \E usec \in LeaseTimeValues, res \in EngineResults :
         IF usec > 0
         THEN /\ last' = Call("set_max_lease_time", "",
                              <<DIV_ROUND_UP(usec, USEC_PER_SEC)>>, res)
              /\ IF res < 0
                 THEN Return(res, "max_lease_time")
                 ELSE Goto("default_lease_time", res)
         ELSE /\ last' = NoCall
              /\ Goto("default_lease_time", r)
    /\ link' = NoLink
    /\ UNCHANGED <<Config, passes, iter, engine, push_failed, lookups>>

(* Lines 295-300; the loop over the categories starts with DNS *)
SetDefaultLeaseTime ==
    /\ pc = "default_lease_time"
    /\ \E usec \in LeaseTimeValues, res \in EngineResults :
         IF usec > 0
         THEN /\ last' = Call("set_default_lease_time", "",
                              <<DIV_ROUND_UP(usec, USEC_PER_SEC)>>, res)
              /\ IF res < 0
                 THEN Return(res, "default_lease_time")
                 ELSE /\ pc' = "servers"
                      /\ n' = 1
                      /\ r' = res
                      /\ UNCHANGED <<address, acquired_uplink, uplink, it, ret, failed>>
         ELSE /\ last' = NoCall
              /\ pc' = "servers"
              /\ n' = 1
              /\ UNCHANGED <<address, r, acquired_uplink, uplink, it, ret, failed>>
    /\ UNCHANGED <<Config, passes, link, iter, engine, push_failed, lookups>>

(* The emit condition of configs[n]: a flag of the network for DNS, NTP    *)
(* and SIP, the constant true for the others (lines 302-337).              *)
ConditionValues(what) ==
    IF what \in {SD_DHCP_LEASE_DNS_SERVERS, SD_DHCP_LEASE_NTP_SERVERS,
                 SD_DHCP_LEASE_SIP_SERVERS}
    THEN BOOLEAN ELSE {TRUE}

(* iteration_path without the test of configs[n].condition *)
iteration_path_ignoring_condition(what, condition, servers, u) ==
    IF Len(servers) > 0 THEN "explicit"
    ELSE IF u = NULL THEN "no_uplink"
    ELSE IF Deref(u).network THEN "uplink"
    ELSE IF what = SD_DHCP_LEASE_DNS_SERVERS THEN "resolve_conf"
    ELSE "unset"

(* iteration_path with the resolv.conf fallback taken for every category *)
iteration_path_fallback_any_category(what, condition, servers, u) ==
    IF ~condition THEN "off"
    ELSE IF Len(servers) > 0 THEN "explicit"
    ELSE IF u = NULL THEN "no_uplink"
    ELSE IF Deref(u).network THEN "uplink"
    ELSE "resolve_conf"

(* Lines 341-360: the branch one iteration takes *)
iteration_path(what, condition, servers, u) ==
    IF ~condition THEN "off"
    ELSE IF Len(servers) > 0 THEN "explicit"
    ELSE IF u = NULL THEN "no_uplink"
    ELSE IF Deref(u).network THEN "uplink"
    ELSE IF what = SD_DHCP_LEASE_DNS_SERVERS THEN "resolve_conf"
    ELSE "unset"

(* configure_servers with the explicit list filtered like the derived ones *)
configure_servers_filtered(what, condition, servers, u, src, file, failAt, res, rin) ==
    LET path == iteration_path(what, condition, servers, u)
        kept == SelectSeq(servers, in4_addr_is_non_local)
        out  == CASE path = "explicit"     -> Resolved(res, kept # <<>>, kept, FALSE)
                  [] path = "no_uplink"    -> Resolved(0, FALSE, <<>>, FALSE)
                  [] path = "uplink"       ->
                         link_push_uplink_to_dhcp_server(what, src, failAt, res)
                  [] path = "resolve_conf" ->
                         dhcp4_server_set_dns_from_resolve_conf(file, failAt, res)
                  [] OTHER                 -> Resolved(rin, FALSE, <<>>, FALSE)
    IN  [what |-> what, condition |-> condition, servers |-> servers, path |-> path,
         src |-> src, file |-> file, oom |-> out.oom, pushed |-> out.pushed,
         list |-> out.list, r |-> out.r, warned |-> condition /\ out.r < 0]

(* configure_servers reading resolv.conf for DNS when no uplink is found *)
configure_servers_fallback_without_uplink(what, condition, servers, u, src, file, failAt, res, rin) ==
    LET path == iteration_path(what, condition, servers, u)
        out  == CASE path = "explicit"     -> Resolved(res, TRUE, servers, FALSE)
                  [] path = "no_uplink"    ->
                         IF what = SD_DHCP_LEASE_DNS_SERVERS
                         THEN dhcp4_server_set_dns_from_resolve_conf(file, failAt, res)
                         ELSE Resolved(0, FALSE, <<>>, FALSE)
                  [] path = "uplink"       ->
                         link_push_uplink_to_dhcp_server(what, src, failAt, res)
                  [] path = "resolve_conf" ->
                         dhcp4_server_set_dns_from_resolve_conf(file, failAt, res)
                  [] OTHER                 -> Resolved(rin, FALSE, <<>>, FALSE)
    IN  [what |-> what, condition |-> condition, servers |-> servers, path |-> path,
         src |-> src, file |-> file, oom |-> out.oom, pushed |-> out.pushed,
         list |-> out.list, r |-> out.r, warned |-> condition /\ out.r < 0]

(* Lines 341-365: one iteration of the loop, given what it reads; `rin` is *)
(* the value of r when the iteration starts.                               *)
configure_servers(what, condition, servers, u, src, file, failAt, res, rin) ==
    LET path == iteration_path(what, condition, servers, u)
        out  == CASE path = "explicit"     -> Resolved(res, TRUE, servers, FALSE)
                  [] path = "no_uplink"    -> Resolved(0, FALSE, <<>>, FALSE)
                  [] path = "uplink"       ->
                         link_push_uplink_to_dhcp_server(what, src, failAt, res)
                  [] path = "resolve_conf" ->
                         dhcp4_server_set_dns_from_resolve_conf(file, failAt, res)
                  [] OTHER                 -> Resolved(rin, FALSE, <<>>, FALSE)
    IN  [what |-> what, condition |-> condition, servers |-> servers, path |-> path,
         src |-> src, file |-> file, oom |-> out.oom, pushed |-> out.pushed,
         list |-> out.list, r |-> out.r, warned |-> condition /\ out.r < 0]

(* NeedsUplink asking for the uplink for every emitted category *)
NeedsUplinkWheneverEmitted(condition, servers) == condition

(* Lines 346-349: the uplink is looked up once *)
NeedsUplink(condition, servers) == condition /\ Len(servers) = 0

(* ServersNext returning the error of a category instead of logging it *)
ServersNextFatal(i, u, acquired) ==
    /\ push_failed' = (push_failed \/ i.warned)
    /\ IF i.warned
       THEN Return(i.r, "servers")
       ELSE /\ r' = i.r
            /\ uplink' = u
            /\ acquired_uplink' = acquired
            /\ IF n < Len(LeaseInfo)
               THEN /\ n' = n + 1
                    /\ pc' = "servers"
               ELSE /\ n' = 0
                    /\ pc' = "emit_router"
            /\ UNCHANGED <<address, it, ret, failed>>

(* Lines 340 and 361-365: a failure is logged and the loop goes on; after  *)
(* the last category the router flag follows.                              *)
ServersNext(i, u, acquired) ==
    /\ r' = i.r
    /\ uplink' = u
    /\ acquired_uplink' = acquired
    /\ push_failed' = (push_failed \/ i.warned)
    /\ IF n < Len(LeaseInfo)
       THEN /\ n' = n + 1
            /\ pc' = "servers"
       ELSE /\ n' = 0
            /\ pc' = "emit_router"
    /\ UNCHANGED <<address, it, ret, failed>>

(* Lines 340-365, one iteration.  The fallback file is drawn when the DNS  *)
(* iteration finds no uplink configuration to copy from.                   *)
ConfigureServers ==
    /\ pc = "servers"
    /\ LET what == LeaseInfo[n]
       IN  \E condition \in ConditionValues(what), servers \in ExplicitLists :
           \E u \in IF NeedsUplink(condition, servers) /\ ~acquired_uplink
                    THEN UplinkValues ELSE {uplink} :
           LET path == iteration_path(what, condition, servers, u)
           IN  \E src \in IF path = "uplink" THEN UplinkSrcValues(what, Deref(u)) ELSE {NoSrc},
                  file \in IF path = "resolve_conf" \/
                              (path = "no_uplink" /\ what = SD_DHCP_LEASE_DNS_SERVERS)
                           THEN ResolvConfValues ELSE {NoFile},
                  failAt \in IF path \in {"uplink", "resolve_conf"} THEN FailAtValues ELSE {0},
                  res \in IF path \in {"explicit", "uplink", "resolve_conf"}
                          THEN EngineResults ELSE {0} :
               LET i == configure_servers(what, condition, servers, u, src, file, failAt,
                                          res, r)
               IN  /\ iter' = i
                   /\ last' = IF i.pushed THEN Call("set_servers", what, i.list, i.r)
                              ELSE NoCall
                   /\ lookups' = IF NeedsUplink(condition, servers) /\ ~acquired_uplink
                                 THEN lookups + 1 ELSE lookups
                   /\ ServersNext(i, u, acquired_uplink \/ NeedsUplink(condition, servers))
    /\ UNCHANGED <<Config, passes, link, engine>>

(* Lines 367-369 *)
SetEmitRouter ==
    /\ pc = "emit_router"
    /\ iter' = NoIter
    /\ \E emit \in BOOLEAN, res \in EngineResults :
         /\ last' = Call("set_emit_router", "", <<emit>>, res)
         /\ IF res < 0
            THEN Return(res, "emit_router")
            ELSE Goto("timezone", res)
    /\ UNCHANGED <<Config, passes, link, engine, push_failed, lookups>>

(* link->network->dhcp_server_timezone *)
TimezoneValues == {NULL, Ptr("Europe/Berlin")}

(* get_timezone: an error, or the zone of the host *)
HostTimezoneValues == {[r |-> -ENOENT, tz |-> ""], [r |-> 0, tz |-> "UTC"]}

(* link->network->dhcp_server_send_options, ..._send_vendor_options *)
SendOptionValues == { <<>>, <<"opt1", "opt2">> }

SendVendorOptionValues == { <<>>, <<"vendor1">> }

(* Lines 371-388; the loop over the options follows *)
SetTimezone ==
    /\ pc = "timezone"
    /\ \E emit \in BOOLEAN, configured \in TimezoneValues, host \in HostTimezoneValues,
          res \in EngineResults, options \in SendOptionValues :
         LET tz == IF configured # NULL THEN Deref(configured) ELSE host.tz
             next(res2) == /\ pc' = "options"
                           /\ it' = options
                           /\ r' = res2
                           /\ UNCHANGED <<address, n, acquired_uplink, uplink, ret, failed>>
         IN  IF ~emit
             THEN next(r) /\ last' = NoCall
             ELSE IF configured = NULL /\ host.r < 0
             THEN Return(host.r, "get_timezone") /\ last' = NoCall
             ELSE /\ last' = Call("set_timezone", "", <<tz>>, res)
                  /\ IF res < 0
                     THEN Return(res, "timezone")
                     ELSE next(res)
    /\ UNCHANGED <<Config, passes, link, iter, engine, push_failed, lookups>>

(* The engine's answer to an add: the entry is there already, it is added, *)
(* or the add fails.                                                       *)
AddResults(present) == IF present THEN {-EEXIST} ELSE {0, -ENOMEM}

(* AddEntry with every error skipped like -EEXIST *)
AddEntryIgnoringErrors(op, step, entry, res, engine2) ==
    /\ last' = Call(op, "", <<entry>>, res)
    /\ it' = Tail(it)
    /\ r' = res
    /\ engine' = IF res < 0 THEN engine ELSE engine2
    /\ UNCHANGED <<pc, address, n, acquired_uplink, uplink, ret, failed>>

(* AddEntry returning -EEXIST like any other error *)
AddEntryExistsIsFatal(op, step, entry, res, engine2) ==
    /\ last' = Call(op, "", <<entry>>, res)
    /\ IF res < 0
       THEN Return(res, step) /\ UNCHANGED engine
       ELSE /\ it' = Tail(it)
            /\ r' = res
            /\ engine' = engine2
            /\ UNCHANGED <<pc, address, n, acquired_uplink, uplink, ret, failed>>

(* One entry of a FOREACH loop that adds entries to the engine (lines      *)
(* 390-396, 398-404, 405-411): -EEXIST is skipped, another error returned. *)
AddEntry(op, step, entry, res, engine2) ==
    /\ last' = Call(op, "", <<entry>>, res)
    /\ IF res = -EEXIST
       THEN /\ it' = Tail(it)
            /\ r' = res
            /\ UNCHANGED <<pc, address, n, acquired_uplink, uplink, engine, ret, failed>>
       ELSE IF res < 0
       THEN Return(res, step) /\ UNCHANGED engine
       ELSE /\ it' = Tail(it)
            /\ r' = res
            /\ engine' = engine2
            /\ UNCHANGED <<pc, address, n, acquired_uplink, uplink, ret, failed>>

(* Lines 390-396, one entry; after the last one the vendor options follow *)
AddOption ==
    /\ pc = "options"
    /\ IF it = <<>>
       THEN /\ pc' = "vendor_options"
            /\ \E options \in SendVendorOptionValues : it' = options
            /\ last' = NoCall
            /\ UNCHANGED <<address, n, r, acquired_uplink, uplink, engine, ret, failed>>
       ELSE \E res \in AddResults(Head(it) \in engine.options) :
            AddEntry("add_option", "options", Head(it), res,
                     [engine EXCEPT !.options = @ \cup {Head(it)}])
    /\ UNCHANGED <<Config, passes, link, iter, push_failed, lookups>>

(* AddVendorOption going on to the start once the vendor options are      *)
(* added, the loop over the static leases left out                         *)
AddVendorOptionThenStart ==
    /\ pc = "vendor_options"
    /\ IF it = <<>>
       THEN /\ pc' = "start"
            /\ last' = NoCall
            /\ UNCHANGED <<address, n, r, acquired_uplink, uplink, it, engine, ret, failed>>
       ELSE \E res \in AddResults(Head(it) \in engine.vendor_options) :
            AddEntry("add_vendor_option", "vendor_options", Head(it), res,
                     [engine EXCEPT !.vendor_options = @ \cup {Head(it)}])
    /\ UNCHANGED <<Config, passes, link, iter, push_failed, lookups>>

(* Lines 398-404, one entry; after the last one the static leases follow *)
AddVendorOption ==
    /\ pc = "vendor_options"
    /\ IF it = <<>>
       THEN /\ pc' = "static_leases"
            /\ it' = dhcp_static_leases
            /\ last' = NoCall
            /\ UNCHANGED <<address, n, r, acquired_uplink, uplink, engine, ret, failed>>
       ELSE \E res \in AddResults(Head(it) \in engine.vendor_options) :
            AddEntry("add_vendor_option", "vendor_options", Head(it), res,
                     [engine EXCEPT !.vendor_options = @ \cup {Head(it)}])
    /\ UNCHANGED <<Config, passes, link, iter, push_failed, lookups>>

(* Lines 405-411, one entry; after the last one the start follows *)
AddStaticLease ==
    /\ pc = "static_leases"
    /\ IF it = <<>>
       THEN /\ pc' = "start"
            /\ last' = NoCall
            /\ UNCHANGED <<address, n, r, acquired_uplink, uplink, it, engine, ret, failed>>
       ELSE \E res \in AddResults(Head(it).key \in engine.static_leases) :
            AddEntry("add_static_lease", "static_leases", Head(it), res,
                     [engine EXCEPT !.static_leases = @ \cup {Head(it).key}])
    /\ UNCHANGED <<Config, passes, link, iter, push_failed, lookups>>

(* Start returning 0 whether sd_dhcp_server_start failed or not *)
StartIgnoringFailure ==
    /\ pc = "start"
    /\ IF engine.running
       THEN /\ Return(0, "")
            /\ last' = NoCall
            /\ UNCHANGED engine
       ELSE \E res \in EngineResults :
            /\ last' = Call("start", "", <<>>, res)
            /\ Return(0, "")
            /\ engine' = IF res < 0 THEN engine ELSE [engine EXCEPT !.running = TRUE]
    /\ UNCHANGED <<Config, passes, link, iter, push_failed, lookups>>

(* Lines 413-419 *)
Start ==
    /\ pc = "start"
    /\ IF engine.running
       THEN /\ Return(0, "")
            /\ last' = NoCall
            /\ UNCHANGED engine
       ELSE \E res \in EngineResults :
            /\ last' = Call("start", "", <<>>, res)
            /\ IF res < 0
               THEN Return(res, "start") /\ UNCHANGED engine
               ELSE Return(0, "") /\ engine' = [engine EXCEPT !.running = TRUE]
    /\ UNCHANGED <<Config, passes, link, iter, push_failed, lookups>>

----------------------------------------------------------------------------

(* sd_dhcp_server_new: nothing configured, not running *)
NewEngine ==
    [pool |-> NULL, options |-> {}, vendor_options |-> {}, static_leases |-> {},
     running |-> FALSE]

Init ==
    /\ dhcp_static_leases = <<>>
    /\ parsed = NoParsed
    /\ pc = "idle"
    /\ passes = 0
    /\ link = NoLink
    /\ address = NULL
    /\ n = 0
    /\ r = 0
    /\ acquired_uplink = FALSE
    /\ uplink = NULL
    /\ it = <<>>
    /\ iter = NoIter
    /\ engine = NewEngine
    /\ last = NoCall
    /\ push_failed = FALSE
    /\ lookups = 0
    /\ failed = ""
    /\ ret = 0

Next ==
    \/ ConfigParseStaticLeases
    \/ FindServerAddress
    \/ ConfigurePool
    \/ SetMaxLeaseTime
    \/ SetDefaultLeaseTime
    \/ ConfigureServers
    \/ SetEmitRouter
    \/ SetTimezone
    \/ AddOption
    \/ AddVendorOption
    \/ AddStaticLease
    \/ Start

Spec == Init /\ [][Next]_vars

----------------------------------------------------------------------------
(* Properties *)

(* AddressFilter of the specification: IPv4, not all-zeros, not loopback *)
AddressFilter(family, a) == family = AF_INET /\ a # <<0, 0, 0, 0>> /\ a[1] # 127

AllAccepted(list) == \A k \in 1..Len(list) : Len(list[k]) = 4 /\ AddressFilter(AF_INET, list[k])

(* The accepted addresses of a list of configured DNS servers, in order *)
AcceptedDns(dns) ==
    LET kept == SelectSeq(dns, LAMBDA d : AddressFilter(d.family, d.address))
    IN  [k \in 1..Len(kept) |-> kept[k].address]

(* The accepted addresses of a lease's servers, in order *)
AcceptedLease(da) == SelectSeq(da, LAMBDA a : AddressFilter(AF_INET, a))

(* The accepted addresses of the nameserver lines of a file, in file order *)
NameserverWords(line) ==
    LET words == SelectSeq(line, LAMBDA t : t # " ")
    IN  IF words # <<>> /\ Head(words) = "nameserver" THEN Tail(words) ELSE <<>>

AcceptedWords(words) ==
    LET ok(w) == /\ in_addr_ifindex_name_from_string_auto(w).r >= 0
                 /\ AddressFilter(in_addr_ifindex_name_from_string_auto(w).family,
                                  in_addr_ifindex_name_from_string_auto(w).in)
        kept  == SelectSeq(words, ok)
    IN  [k \in 1..Len(kept) |-> in_addr_ifindex_name_from_string_auto(kept[k]).in]

RECURSIVE NameserversOf(_)
NameserversOf(lines) ==
    IF lines = <<>> THEN <<>>
    ELSE AcceptedWords(NameserverWords(Head(lines))) \o NameserversOf(Tail(lines))

(* The file can be opened and read to its end *)
Readable(f) == f.errno = 0 /\ f.read_error = 0

(* The last step was the iteration of category `what` *)
Iterated(what) == iter.what = what /\ pc \in {"servers", "emit_router"}

(* The last iteration wanted the servers of an uplink *)
WantedUplink == iter.condition /\ iter.servers = <<>>

(* The engine was handed `list` for category `what`, and nothing else *)
SetOnEngine(what, list) ==
    /\ iter.pushed
    /\ iter.list = list
    /\ last.op = "set_servers" /\ last.what = what /\ last.arg = list

NothingSet == ~iter.pushed /\ last = NoCall

(* C1: after a valid line "<MAC> <IPv4>" the table holds exactly one entry *)
(* for the client identifier 0x01 + MAC, mapped to the address of the line *)
C1_ValidLineIsStored ==
    parsed.how = "stored" =>
        /\ Len(parsed.key) = ETH_ALEN + 1 /\ parsed.key[1] = 1
        /\ Cardinality(ordered_hashmap_get(dhcp_static_leases, parsed.key)) = 1
        /\ \A k \in ordered_hashmap_get(dhcp_static_leases, parsed.key) :
               dhcp_static_leases[k].value = parsed.value

(* C2, as claimed: a non-empty explicit list is set on the engine as it    *)
(* is, whatever the emit flag of the category                              *)
C2_ExplicitListAlwaysSet ==
    \A what \in Categories :
        Iterated(what) /\ iter.servers # <<>> => SetOnEngine(what, iter.servers)

(* C2, amended: with the emit condition true a non-empty explicit list is  *)
(* set on the engine as it is (same addresses, same order, no filtering),  *)
(* whatever the uplink is; with the emit flag false nothing is set         *)
C2_ExplicitListSetWhenEmitted ==
    \A what \in Categories :
        Iterated(what) /\ iter.servers # <<>> =>
            IF iter.condition THEN SetOnEngine(what, iter.servers) ELSE NothingSet

C2_Witness ==
    /\ Iterated(SD_DHCP_LEASE_SIP_SERVERS)
    /\ iter.condition
    /\ iter.servers = << <<0, 0, 0, 0>>, <<8, 8, 8, 8>> >>
    /\ SetOnEngine(SD_DHCP_LEASE_SIP_SERVERS, iter.servers)
    /\ uplink # NULL /\ Deref(uplink).network /\ Deref(uplink).dhcp_lease

(* C3, as claimed: every address handed to the engine, the pool address    *)
(* and the addresses of every server list, is IPv4, not all-zeros and not  *)
(* loopback                                                                *)
C3_EveryAddressAccepted ==
    /\ last.op = "set_servers" => AllAccepted(last.arg)
    /\ last.op = "configure_pool" =>
           /\ Len(Deref(last.arg).address) = 4
           /\ AddressFilter(AF_INET, Deref(last.arg).address)

(* C3, amended: every address of a server list taken from the uplink's     *)
(* configuration, the uplink's lease or resolv.conf is IPv4, not all-zeros *)
(* and not loopback, and the pool address is IPv4; explicit lists are      *)
(* handed over as configured                                               *)
C3_DerivedAddressesAccepted ==
    /\ last.op = "set_servers" /\ iter.servers = <<>> => AllAccepted(last.arg)
    /\ last.op = "set_servers" /\ iter.servers # <<>> => last.arg = iter.servers
    /\ last.op = "configure_pool" => Len(Deref(last.arg).address) = 4

C3_Witness ==
    /\ Iterated(SD_DHCP_LEASE_SMTP_SERVERS)
    /\ WantedUplink
    /\ iter.src.servers # <<>>
    /\ iter.src.dhcp_lease = Ptr(<< <<127, 0, 0, 1>>, <<1, 1, 1, 1>> >>)
    /\ SetOnEngine(SD_DHCP_LEASE_SMTP_SERVERS, << <<1, 1, 1, 1>> >>)

(* C4, as claimed: DNS wanted from an uplink and no uplink found: the DNS  *)
(* list set on the engine is the accepted nameservers of resolv.conf       *)
C4_FallbackWithoutUplink ==
    Iterated(SD_DHCP_LEASE_DNS_SERVERS) /\ WantedUplink /\ uplink = NULL
    /\ Readable(iter.file) /\ NameserversOf(iter.file.lines) # <<>>
        => SetOnEngine(SD_DHCP_LEASE_DNS_SERVERS, NameserversOf(iter.file.lines))

(* C4, amended: DNS wanted from an uplink and an uplink found that has no  *)
(* configuration: the DNS list set on the engine is the accepted           *)
(* nameservers of resolv.conf; with no uplink found nothing is set         *)
C4_FallbackForUnconfiguredUplink ==
    Iterated(SD_DHCP_LEASE_DNS_SERVERS) /\ WantedUplink =>
        IF uplink = NULL THEN NothingSet
        ELSE ~Deref(uplink).network /\ Readable(iter.file) /\ ~iter.oom =>
                 IF NameserversOf(iter.file.lines) # <<>>
                 THEN SetOnEngine(SD_DHCP_LEASE_DNS_SERVERS, NameserversOf(iter.file.lines))
                 ELSE NothingSet

C4_Witness ==
    /\ Iterated(SD_DHCP_LEASE_DNS_SERVERS)
    /\ WantedUplink
    /\ uplink # NULL /\ ~Deref(uplink).network
    /\ iter.file.lines = MixedLines
    /\ ~iter.oom
    /\ SetOnEngine(SD_DHCP_LEASE_DNS_SERVERS, << <<1, 1, 1, 1>>, <<9, 9, 9, 9>> >>)

(* The step of each engine operation whose failure is fatal *)
FatalStep(op) ==
    CASE op = "configure_pool"         -> "pool"
      [] op = "set_max_lease_time"     -> "max_lease_time"
      [] op = "set_default_lease_time" -> "default_lease_time"
      [] op = "set_emit_router"        -> "emit_router"
      [] op = "set_timezone"           -> "timezone"
      [] op = "add_option"             -> "options"
      [] op = "add_vendor_option"      -> "vendor_options"
      [] op = "add_static_lease"       -> "static_leases"
      [] op = "start"                  -> "start"
      [] OTHER                         -> "none"

AddOps == {"add_option", "add_vendor_option", "add_static_lease"}

FatalFailure(c) ==
    /\ FatalStep(c.op) # "none"
    /\ c.res < 0
    /\ ~(c.op \in AddOps /\ c.res = -EEXIST)

(* C5: a failing fatal step ends the pass at once with its error: no       *)
(* engine operation follows it, start is not called after it, and what     *)
(* the engine took before stays                                            *)
C5_FatalFailureEndsPass ==
    /\ FatalFailure(last) => pc = "done" /\ ret = last.res /\ failed = FatalStep(last.op)
    /\ failed \in {"address", "get_timezone"} => pc = "done" /\ ret < 0 /\ last = NoCall
    /\ pc = "done" /\ ret < 0 =>
           /\ failed # ""
           /\ failed \notin {"address", "get_timezone"} =>
                  FatalFailure(last) /\ failed = FatalStep(last.op)
           /\ failed \notin {"address", "pool"} => engine.pool # NULL
    /\ failed # "" => pc = "done" /\ ret < 0

C5_Witness ==
    /\ pc = "done" /\ ret = -ENOMEM /\ failed = "options"
    /\ last = Call("add_option", "", <<"opt2">>, -ENOMEM)
    /\ engine.pool # NULL
    /\ engine.options = {"opt1"}
    /\ ~engine.running

(* C6: a link without a non-null static IPv4 address and without an IPv4   *)
(* pool address: the pass fails, no engine operation is made and the       *)
(* uplink is not looked up                                                 *)
C6_NoAddressNoEngineCall ==
    /\ link.read
    /\ \A k \in 1..Len(link.static_addresses) :
           ~(link.static_addresses[k].family = AF_INET
             /\ link.static_addresses[k].in_addr # <<0, 0, 0, 0>>)
    /\ \A k \in 1..Len(link.pool_addresses) : link.pool_addresses[k].family # AF_INET
    => /\ pc = "done" /\ ret < 0
       /\ last = NoCall
       /\ lookups = 0
       /\ passes = 1 => engine = NewEngine

C6_Witness ==
    /\ link.read
    /\ link.static_addresses # <<>>
    /\ link.pool_addresses # <<>>
    /\ pc = "done" /\ ret = -EBUSY
    /\ last = NoCall

(* C7: a failed push of a category's list is logged and the pass goes on   *)
(* with the next category or the router flag; the error is not returned    *)
C7_PushFailureIsNotFatal ==
    /\ last.op = "set_servers" /\ last.res < 0 =>
           /\ iter.warned /\ push_failed
           /\ ret = 0 /\ failed = ""
           /\ \/ pc = "servers" /\ n > 1 /\ LeaseInfo[n - 1] = last.what
              \/ pc = "emit_router" /\ last.what = SD_DHCP_LEASE_LPR_SERVERS
    /\ pc = "done" /\ failed = "" => ret = 0
    /\ pc = "done" /\ ret < 0 => last.op # "set_servers"

C7_Witness ==
    /\ pc = "done" /\ ret = 0
    /\ push_failed
    /\ engine.running
    /\ engine.options = {"opt1", "opt2"}

(* C8: an allocation failure while a server list is gathered ends the pass *)
(* at once with an error                                                   *)
C8_OomIsFatal ==
    iter.oom => pc = "done" /\ ret = -ENOMEM

C10_UplinkDnsList ==
    Iterated(SD_DHCP_LEASE_DNS_SERVERS) /\ WantedUplink /\ uplink # NULL
    /\ Deref(uplink).network /\ ~iter.oom
        => LET own   == AcceptedDns(iter.src.dns)
               lease == IF iter.src.use /\ iter.src.dhcp_lease # NULL
                        THEN AcceptedLease(Deref(iter.src.dhcp_lease)) ELSE <<>>
           IN  IF own \o lease # <<>>
               THEN SetOnEngine(SD_DHCP_LEASE_DNS_SERVERS, own \o lease)
               ELSE NothingSet

C10_Witness ==
    /\ Iterated(SD_DHCP_LEASE_DNS_SERVERS)
    /\ WantedUplink
    /\ uplink # NULL /\ Deref(uplink).network
    /\ iter.src.dns = <<>>
    /\ iter.src.use
    /\ iter.src.dhcp_lease = Ptr(<< <<8, 8, 8, 8>>, <<0, 0, 0, 0>> >>)
    /\ SetOnEngine(SD_DHCP_LEASE_DNS_SERVERS, << <<8, 8, 8, 8>> >>)

(* C11: a category whose emit flag is false and whose explicit list is     *)
(* empty: its iteration sets nothing on the engine, looks up no uplink and *)
(* reads neither the uplink, its lease nor resolv.conf                     *)
C11_EmitOffNothingConsulted ==
    [][ pc = "servers" /\ iter'.what = LeaseInfo[n]
        /\ ~iter'.condition /\ iter'.servers = <<>>
            => /\ last' = NoCall
               /\ ~iter'.pushed
               /\ iter'.src = NoSrc
               /\ iter'.file = NoFile
               /\ lookups' = lookups
               /\ uplink' = uplink
               /\ acquired_uplink' = acquired_uplink ]_vars

C11_Witness ==
    /\ Iterated(SD_DHCP_LEASE_NTP_SERVERS)
    /\ ~iter.condition /\ iter.servers = <<>>
    /\ uplink # NULL /\ Deref(uplink).network /\ Deref(uplink).dhcp_lease
    /\ lookups = 1
    /\ NothingSet

(* C12: an empty explicit list, the emit condition true and no uplink      *)
(* found: nothing is set for the category, whichever it is, no error is    *)
(* recorded or logged, and the pass goes on with the next category or the  *)
(* router flag                                                             *)
C12_NoUplinkNothingSet ==
    \A what \in Categories :
        Iterated(what) /\ WantedUplink /\ uplink = NULL
            => /\ NothingSet
               /\ acquired_uplink
               /\ iter.r = 0 /\ r = 0
               /\ ~iter.warned
               /\ ret = 0 /\ failed = ""
               /\ \/ pc = "servers" /\ n > 1 /\ LeaseInfo[n - 1] = what
                  \/ pc = "emit_router" /\ what = SD_DHCP_LEASE_LPR_SERVERS

C12_Witness ==
    /\ Iterated(SD_DHCP_LEASE_DNS_SERVERS)
    /\ WantedUplink
    /\ uplink = NULL /\ acquired_uplink
    /\ Readable(iter.file) /\ NameserversOf(iter.file.lines) # <<>>
    /\ NothingSet
    /\ pc = "servers" /\ n = 2

(* C13: an uplink found that has no configuration: for DNS the list set is *)
(* the accepted addresses of the nameserver lines of resolv.conf in file   *)
(* order, comments, empty lines and malformed words left out; a missing    *)
(* file sets nothing and is no error; for the five other categories        *)
(* nothing is set and the file is not read                                 *)
C13_ResolvConfOnlyForDns ==
    \A what \in Categories :
        Iterated(what) /\ WantedUplink /\ uplink # NULL /\ ~Deref(uplink).network
            => IF what = SD_DHCP_LEASE_DNS_SERVERS
               THEN /\ iter.file.errno = ENOENT =>
                           NothingSet /\ iter.r = 0 /\ ~iter.warned
                    /\ Readable(iter.file) /\ ~iter.oom =>
                           /\ iter.list = NameserversOf(iter.file.lines)
                           /\ iter.pushed = (iter.list # <<>>)
                           /\ last = IF iter.pushed
                                     THEN Call("set_servers", what, iter.list, iter.r)
                                     ELSE NoCall
               ELSE NothingSet /\ iter.file = NoFile

C13_Witness ==
    /\ Iterated(SD_DHCP_LEASE_DNS_SERVERS)
    /\ WantedUplink
    /\ uplink # NULL /\ ~Deref(uplink).network
    /\ iter.file = ResolvConf(0, <<NameserverLine>>, 0)
    /\ SetOnEngine(SD_DHCP_LEASE_DNS_SERVERS, << <<1, 1, 1, 1>> >>)
    /\ iter.r = 0

(* The words of a configuration value *)
WordsOf(rvalue) == SelectSeq(rvalue, LAMBDA t : t # " ")

(* A line whose first word is missing or no hardware address, or whose     *)
(* second word is missing or no IPv4 address                               *)
InvalidLine(rvalue) ==
    /\ rvalue # <<>>
    /\ \/ Len(WordsOf(rvalue)) < 2
       \/ ether_addr_from_string(WordsOf(rvalue)[1]).r < 0
       \/ in_addr_from_string(AF_INET, WordsOf(rvalue)[2]).r < 0

(* A step of the handler of the static lease key *)
HandlerStep == pc = "idle" /\ pc' = "idle"

(* C14: the static lease table never holds two entries with the same       *)
(* client identifier                                                       *)
C14_NoTwoEntriesForOneClient ==
    \A i, j \in 1..Len(dhcp_static_leases) :
        dhcp_static_leases[i].key = dhcp_static_leases[j].key => i = j

C14_Witness ==
    /\ parsed.how = "stored"
    /\ parsed.rvalue = <<"aa:bb:cc:dd:ee:ff", " ", "10.0.0.9">>
    /\ parsed.key = <<1, 170, 187, 204, 221, 238, 255>>
    /\ C14_NoTwoEntriesForOneClient

(* C15: a line that is not valid leaves the table as it was and the        *)
(* handler returns 0                                                       *)
C15_InvalidLineIsIgnored ==
    [][ HandlerStep /\ parsed'.fail = "none" /\ InvalidLine(parsed'.rvalue)
            => /\ dhcp_static_leases' = dhcp_static_leases
               /\ parsed'.r = 0 ]_vars

C15_Witness ==
    /\ parsed.fail = "none"
    /\ parsed.rvalue = <<"aa:bb:cc:dd:ee:ff", " ", "::1">>
    /\ parsed.how = "ignored"
    /\ parsed.r = 0

(* C16: a line with an empty value frees the table: it holds no entry      *)
(* afterwards and the handler returns 0                                    *)
C16_EmptyValueClears ==
    parsed.how # "none" /\ parsed.rvalue = <<>>
        => /\ parsed.how = "cleared"
           /\ dhcp_static_leases = <<>>
           /\ parsed.r = 0

C16_Witness ==
    /\ parsed.how = "cleared"
    /\ parsed.rvalue = <<>>
    /\ parsed.fail = "word1"
    /\ dhcp_static_leases = <<>>

AddSteps == {"options", "vendor_options", "static_leases"}

(* C17: an add that the engine answers with "already exists" is skipped:   *)
(* the engine is left as it is, the pass does not fail and goes on with    *)
(* the next entry; start is not called when the engine is running          *)
C17_ExistingEntriesAreSkipped ==
    [][ /\ pc \in AddSteps /\ it # <<>> /\ last'.op \in AddOps /\ last'.res = -EEXIST
            => /\ pc' = pc
               /\ it' = Tail(it)
               /\ engine' = engine
               /\ ret' = 0 /\ failed' = ""
        /\ pc = "start" /\ engine.running
            => /\ last' = NoCall
               /\ engine' = engine
               /\ pc' = "done" /\ ret' = 0 /\ failed' = "" ]_vars

C17_Witness ==
    /\ passes = 2
    /\ pc = "options" /\ it = <<>>
    /\ last = Call("add_option", "", <<"opt2">>, -EEXIST)
    /\ engine.options = {"opt1", "opt2"}
    /\ engine.running
    /\ ret = 0 /\ failed = ""

(* The states of a provisioning pass, as the specification names them *)
PassStateOf(p, res) ==
    CASE p = "idle"                                   -> "Idle"
      [] p = "pool"                                   -> "ConfiguringPool"
      [] p \in {"max_lease_time", "default_lease_time"} -> "ConfiguringLeaseTimes"
      [] p = "servers"                                -> "ConfiguringServiceLists"
      [] p \in {"emit_router", "timezone"}            -> "ConfiguringRouterAndTimezone"
      [] p \in {"options", "vendor_options"}          -> "ConfiguringOptions"
      [] p = "static_leases"                          -> "ConfiguringStaticLeases"
      [] p = "start"                                  -> "Starting"
      [] p = "done" /\ res >= 0                       -> "Running"
      [] OTHER                                        -> "Failed"

PassStates ==
    << "Idle", "ConfiguringPool", "ConfiguringLeaseTimes", "ConfiguringServiceLists",
       "ConfiguringRouterAndTimezone", "ConfiguringOptions", "ConfiguringStaticLeases",
       "Starting", "Running" >>

PassRank(state) == CHOOSE k \in 1..Len(PassStates) : PassStates[k] = state

(* The state a step leaves: a pass that has ended is idle again *)
PassFrom == IF pc = "done" THEN "Idle" ELSE PassStateOf(pc, ret)

PassTo == PassStateOf(pc', ret')

PassInOrder ==
    PassTo # "Failed" => PassRank(PassTo) \in {PassRank(PassFrom), PassRank(PassFrom) + 1}

(* C18, as claimed: the states are passed in order and Failed is entered   *)
(* only from Idle, ConfiguringPool, ConfiguringLeaseTimes or               *)
(* ConfiguringServiceLists                                                 *)
C18_FailedFromFirstFour ==
    [][ /\ PassInOrder
        /\ PassTo = "Failed" =>
               PassFrom \in {"Idle", "ConfiguringPool", "ConfiguringLeaseTimes",
                             "ConfiguringServiceLists"} ]_vars

(* C18, amended: the states are passed in order, and Failed is entered     *)
(* from Idle, ConfiguringPool, ConfiguringLeaseTimes or                    *)
(* ConfiguringServiceLists, or from ConfiguringRouterAndTimezone,          *)
(* ConfiguringOptions, ConfiguringStaticLeases or Starting                 *)
C18_FailedFromAnyStep ==
    [][ /\ PassInOrder
        /\ PassTo = "Failed" =>
               PassFrom \in {"Idle", "ConfiguringPool", "ConfiguringLeaseTimes",
                             "ConfiguringServiceLists", "ConfiguringRouterAndTimezone",
                             "ConfiguringOptions", "ConfiguringStaticLeases",
                             "Starting"} ]_vars

C18_Witness ==
    /\ PassStateOf(pc, ret) = "Failed"
    /\ failed = "timezone"
    /\ last.op = "set_timezone" /\ last.res < 0
    /\ push_failed

(* The steps of a pass and the engine operation of each, in the order of   *)
(* the claim                                                               *)
StepOrder ==
    << "pool", "max_lease_time", "default_lease_time", "servers", "emit_router",
       "timezone", "options", "vendor_options", "static_leases", "start" >>

OpOrder ==
    << "configure_pool", "set_max_lease_time", "set_default_lease_time", "set_servers",
       "set_emit_router", "set_timezone", "add_option", "add_vendor_option",
       "add_static_lease", "start" >>

StepRank(step) == CHOOSE k \in 1..Len(StepOrder) : StepOrder[k] = step

InPass == pc \notin {"idle", "done"}

(* C19: the engine operations of a pass are made in the claimed order,     *)
(* one per category and per entry; start is reached only through every    *)
(* earlier step with no fatal failure, and a pass that returns 0 leaves    *)
(* the engine running                                                      *)
C19_FixedOrderOfOperations ==
    [][ /\ ~InPass => last' = NoCall /\ pc' \in {"idle", "pool", "done"}
        /\ InPass =>
             /\ failed = "" /\ ret = 0
             /\ last' # NoCall =>
                    /\ last'.op = OpOrder[StepRank(pc)]
                    /\ pc = "servers" => last'.what = LeaseInfo[n]
                    /\ pc \in AddSteps => it # <<>> /\ last'.arg = <<Head(it)>>
             /\ \/ pc' = "done" /\ (ret' = 0 => pc = "start" /\ engine'.running)
                \/ /\ pc' # "done"
                   /\ StepRank(pc') = StepRank(pc) + 1
                   /\ pc = "servers" => n = Len(LeaseInfo)
                   /\ pc \in AddSteps => it = <<>> /\ last' = NoCall
                \/ pc' = pc /\ pc = "servers" /\ n' = n + 1
                \/ pc' = pc /\ pc \in AddSteps /\ it # <<>> /\ it' = Tail(it) ]_vars

C19_Witness ==
    /\ pc = "done" /\ ret = 0
    /\ last = Call("start", "", <<>>, 0)
    /\ engine.pool # NULL
    /\ engine.options = {"opt1", "opt2"}
    /\ engine.vendor_options = {"vendor1"}
    /\ engine.running

(* C20: manager_find_uplink is called at most once in a pass, and only by  *)
(* the first category that is emitted without an explicit list; every     *)
(* later category uses the uplink found then, a missing one included       *)
C20_UplinkLookedUpOnce ==
    [][ /\ lookups <= 1
        /\ InPass => (acquired_uplink <=> lookups = 1)
        /\ ~acquired_uplink => uplink = NULL
        /\ pc = "servers" =>
             LET wanted == iter'.condition /\ iter'.servers = <<>>
             IN  /\ lookups' = IF wanted /\ ~acquired_uplink THEN lookups + 1 ELSE lookups
                 /\ acquired_uplink => uplink' = uplink
                 /\ wanted => (iter'.path = "no_uplink" <=> uplink' = NULL)
        /\ InPass /\ pc # "servers" => lookups' = lookups
        /\ ~InPass => lookups' \in {lookups, 0} ]_vars

C20_Witness ==
    /\ pc = "emit_router"
    /\ lookups = 1
    /\ WantedUplink
    /\ iter.what = LeaseInfo[Len(LeaseInfo)]
    /\ iter.path = "uplink"
    /\ iter.pushed /\ last.op = "set_servers" /\ last.what = iter.what

(* C21: the static lease table holds no entry, whatever lines were read:   *)
(* a valid line puts its entry and removes it again in the same call, so   *)
(* the call leaves the table as it was, and the static lease step of a     *)
(* pass adds no entry to the engine                                        *)
C21_TableAlwaysEmpty ==
    [][ /\ dhcp_static_leases = <<>> /\ dhcp_static_leases' = <<>>
        /\ HandlerStep /\ parsed'.how = "stored" =>
               LET put == ordered_hashmap_replace(dhcp_static_leases, parsed'.key,
                                                  parsed'.value)
               IN  /\ ordered_hashmap_get(put, parsed'.key) # {}
                   /\ dhcp_static_leases' = ordered_hashmap_remove(put, parsed'.key)
        /\ pc = "static_leases" => it = <<>> /\ last' = NoCall /\ pc' = "start"
        /\ last'.op # "add_static_lease"
        /\ engine'.static_leases = {} ]_vars

C21_Witness ==
    /\ parsed.how = "stored"
    /\ parsed.fail = "none"
    /\ parsed.value # In4Null
    /\ ordered_hashmap_get(dhcp_static_leases, parsed.key) = {}
    /\ dhcp_static_leases = <<>>

(* The positions of the addresses of a list that are IPv4, and of those    *)
(* that are IPv4 and not 0.0.0.0                                           *)
Ipv4At(addresses) == { k \in 1..Len(addresses) : addresses[k].family = AF_INET }

NonNullIpv4At(addresses) ==
    { k \in Ipv4At(addresses) : addresses[k].in_addr # <<0, 0, 0, 0>> }

First(positions) == CHOOSE k \in positions : \A j \in positions : k <= j

(* The address the claim names for the link of the pass, if there is one *)
ServerAddress ==
    IF NonNullIpv4At(link.static_addresses) # {}
    THEN <<link.static_addresses[First(NonNullIpv4At(link.static_addresses))]>>
    ELSE IF Ipv4At(link.pool_addresses) # {}
    THEN <<link.pool_addresses[First(Ipv4At(link.pool_addresses))]>>
    ELSE <<>>

ServerPool ==
    IF ServerAddress = <<>> THEN <<>>
    ELSE <<[address |-> ServerAddress[1].in_addr, prefixlen |-> ServerAddress[1].prefixlen,
            offset |-> link.pool_offset, size |-> link.pool_size]>>

(* C22: the address of the server is the first static address that is     *)
(* IPv4 and not null, and the first IPv4 pool address only when there is   *)
(* none; the pool of the engine is configured from that address, its       *)
(* prefix length and the configured offset and size                        *)
C22_PoolFromServerAddress ==
    /\ InPass => address # <<>>
    /\ InPass /\ link.read => address = ServerAddress
    /\ last.op = "configure_pool" =>
           link.read /\ last.arg # <<>> /\ last.arg = ServerPool
    /\ pc = "max_lease_time" => engine.pool = ServerPool
    /\ InPass /\ pc # "pool" =>
           /\ engine.pool # <<>>
           /\ engine.pool[1].address = address[1].in_addr
           /\ engine.pool[1].prefixlen = address[1].prefixlen
    /\ last.op = "configure_pool" /\ last.res < 0 => pc = "done" /\ ret = last.res

C22_Witness ==
    /\ last.op = "configure_pool" /\ last.res = 0
    /\ link.static_addresses # <<>>
    /\ NonNullIpv4At(link.static_addresses) = {}
    /\ Ipv4At(link.pool_addresses) = {2, 3}
    /\ engine.pool = <<[address |-> <<172, 16, 0, 1>>, prefixlen |-> 12,
                        offset |-> 10, size |-> 50]>>

(* C23: a category is warned about only when the resolution or the push    *)
(* made for that category failed; no warning is made for a category for    *)
(* which nothing was done (an uplink without configuration, a category     *)
(* other than DNS)                                                         *)
C23_WarningIsForOwnFailure ==
    iter.warned => iter.path \in {"explicit", "uplink", "resolve_conf"}

====
